---- MODULE Spec2Model ----
(***************************************************************************)
(* Model of keras/layers/preprocessing/hashing.py: the Hashing layer.      *)
(*                                                                         *)
(* Python values are tagged records of one shape, so that any two of them  *)
(* can be compared: None, an int, a str (its bytes), or a reference to a   *)
(* list/tuple object on the heap.  Lists are mutable heap objects, because *)
(* __init__ and get_config store and return references, not copies.        *)
(*                                                                         *)
(* The two TensorFlow hash kernels are library code; they are modelled by  *)
(* byte-wise mixing functions of a narrower width (TLC integers are 32     *)
(* bit), FarmHash64 unkeyed and SipHash64 keyed by the two salt integers.  *)
(***************************************************************************)
EXTENDS Integers, Sequences, FiniteSets, TLC

VARIABLES heap, layers, given, callerRefs, last

vars == <<heap, layers, given, callerRefs, last>>

----------------------------------------------------------------------------
(* Bounds *)

MaxLayers == 2

MaxBins == 3

MaxLen == 2

----------------------------------------------------------------------------
(* Python scalars *)

PyNone == [t |-> "none", i |-> 0, s |-> <<>>]

PyInt(n) == [t |-> "int", i |-> n, s |-> <<>>]

PyStr(bytes) == [t |-> "str", i |-> 0, s |-> bytes]

Ref(a) == [t |-> "ref", i |-> a, s |-> <<>>]

\* a freshly written list or tuple literal, not yet an object of the heap
New(kind, elems) == [t |-> kind, i |-> 0, s |-> elems]

\* isinstance(x, int)
IsInt(x) == x.t = "int"

\* the module-level list _DEFAULT_SALT_KEY = [0xDECAFCAFFE, 0xDECAFCAFFE];
\* 0xDECAFCAFFE is kept to its low 31 bits
DEFAULT_SALT_KEY == [kind |-> "list", elems |-> <<PyInt(1258074110), PyInt(1258074110)>>]

\* the address of _DEFAULT_SALT_KEY on the heap
DefaultAddr == 1

----------------------------------------------------------------------------
(* Hashing.__init__ *)

NoLayer == [num_bins |-> 0, mask_value |-> PyNone, strong_hash |-> FALSE, salt |-> 0]

\* where a salt argument lives: an object the caller already holds, or a new
\* object at the next free address
SaltObject(h, salt) ==
  IF salt.t = "ref" THEN h[salt.i] ELSE [kind |-> salt.t, elems |-> salt.s]

SaltIsSequence(salt) == salt.t \in {"ref", "list", "tuple"}

\* mutant: zero slips through the check (num_bins < 0)
NumBinsRejected_ZeroAccepted(num_bins) ==
  num_bins.t = "none" \/ (num_bins.t = "int" /\ num_bins.i < 0)

\* num_bins is None or num_bins <= 0
NumBinsRejected(num_bins) == num_bins.t = "none" \/ (num_bins.t = "int" /\ num_bins.i <= 0)

\* The result of Hashing(num_bins, mask_value, salt) on heap h: whether it
\* returned, the attributes assigned before it returned or raised, the
\* layer, and the heap afterwards.
PyInit(h, num_bins, mask_value, salt) ==
  IF NumBinsRejected(num_bins)
  THEN [ok |-> FALSE, attrs |-> {}, layer |-> NoLayer, heap |-> h]
  ELSE LET strong == (salt.t # "none")
           base == [num_bins |-> num_bins.i, mask_value |-> mask_value,
                    strong_hash |-> strong, salt |-> 0]
           early == {"num_bins", "mask_value", "strong_hash"}
           all == early \cup {"salt"}
       IN IF salt.t # "none"
          THEN IF SaltIsSequence(salt) /\ Len(SaltObject(h, salt).elems) = 2
               THEN IF salt.t = "ref"
                    THEN [ok |-> TRUE, attrs |-> all,
                          layer |-> [base EXCEPT !.salt = salt.i], heap |-> h]
                    ELSE [ok |-> TRUE, attrs |-> all,
                          layer |-> [base EXCEPT !.salt = Len(h) + 1],
                          heap |-> Append(h, SaltObject(h, salt))]
               ELSE IF IsInt(salt)
               THEN [ok |-> TRUE, attrs |-> all,
                     layer |-> [base EXCEPT !.salt = Len(h) + 1],
                     heap |-> Append(h, [kind |-> "list", elems |-> <<salt, salt>>])]
               ELSE [ok |-> FALSE, attrs |-> early, layer |-> NoLayer, heap |-> h]
          ELSE [ok |-> TRUE, attrs |-> all,
                layer |-> [base EXCEPT !.salt = DefaultAddr], heap |-> h]

----------------------------------------------------------------------------
(* Tensors and the TensorFlow operations the layer calls *)

\* a column of values: a dense tf.Tensor, a numpy array, a tf.SparseTensor
\* (indices, values, dense_shape), a tf.RaggedTensor, or a plain Python
\* nested sequence.  vals is the flat sequence of its values.
Column(kind, dtype, vals, indices, dense_shape) ==
  [kind |-> kind, dtype |-> dtype, vals |-> vals, indices |-> indices,
   dense_shape |-> dense_shape]

NoColumn == Column("none", "none", <<>>, <<>>, <<>>)

Dense(kind, dtype, vals) == Column(kind, dtype, vals, <<>>, <<Len(vals), 1>>)

\* mutant: arrays are not recognised (tf.is_tensor(inp) alone)
IsTensorOrArray_TensorOnly(col) == col.kind \in {"tensor", "sparse", "ragged"}

\* tf.is_tensor(inp) or isinstance(inp, np.ndarray)
IsTensorOrArray(col) == col.kind \in {"tensor", "sparse", "ragged", "ndarray"}

RECURSIVE Digits(_)
\* the decimal digits of n >= 0, as ASCII bytes
Digits(n) == IF n < 10 THEN <<48 + n>> ELSE Digits(n \div 10) \o <<48 + (n % 10)>>

\* mutant: the sign of a negative integer is lost
AsString_Unsigned(x) == PyStr(IF x.i < 0 THEN Digits(0 - x.i) ELSE Digits(x.i))

\* tf.as_string on one integer: canonical base 10, '-' for negatives
AsString(x) == PyStr(IF x.i < 0 THEN <<45>> \o Digits(0 - x.i) ELSE Digits(x.i))

RECURSIVE Mix(_, _)
\* byte-wise mixing of a byte sequence into a hash state
Mix(h, bytes) ==
  IF bytes = <<>> THEN h ELSE Mix((h * 31 + Head(bytes) + 7) % 65536, Tail(bytes))

\* FarmHash64 of a byte string: no key
FarmHash64(bytes) == Mix(40503, bytes)

\* SipHash64 of a byte string under the key (k0, k1)
SipHash64(bytes, k0, k1) == Mix(((k0 % 4096) * 5 + (k1 % 4096) * 3 + 1) % 65536, bytes)

\* tf.strings.to_hash_bucket_fast(values, num_buckets) on one string
ToHashBucketFast(x, num_buckets) == FarmHash64(x.s) % num_buckets

\* tf.strings.to_hash_bucket_strong(values, num_buckets, key) on one string
ToHashBucketStrong(x, num_buckets, key) ==
  SipHash64(x.s, key[1].i, key[2].i) % num_buckets

\* the key argument of the strong hash must be two integers
KeyOk(key) == Len(key) = 2 /\ \A k \in 1..Len(key) : IsInt(key[k])

\* tf.equal(values, mask_value): elementwise, and a TypeError when the
\* mask's type is not the tensor's dtype
EqualOk(dtype, mask_value) ==
  \/ dtype = "int" /\ mask_value.t = "int"
  \/ dtype = "string" /\ mask_value.t = "str"

Equal(vals, mask_value) == [k \in 1..Len(vals) |-> vals[k] = mask_value]

\* tf.convert_to_tensor on a Python sequence of plain columns: one tensor
\* holding all of them, or an error when they are not rectangular or mix types
Stackable(cols) ==
  \A j, k \in 1..Len(cols) :
     cols[j].dtype = cols[k].dtype /\ Len(cols[j].vals) = Len(cols[k].vals)

RECURSIVE Flatten(_)
Flatten(cols) == IF cols = <<>> THEN <<>> ELSE Head(cols).vals \o Flatten(Tail(cols))

Stack(cols) ==
  Column("tensor", cols[1].dtype, Flatten(cols), <<>>, <<Len(cols), Len(cols[1].vals)>>)

----------------------------------------------------------------------------
(* Hashing: the methods behind call *)

\* what a call is given: one column, or a Python list/tuple of columns
Single(col) == [multi |-> FALSE, container |-> "none", cols |-> <<col>>]

Multi(container, cols) == [multi |-> TRUE, container |-> container, cols |-> cols]

NoInput == [multi |-> FALSE, container |-> "none", cols |-> <<>>]

Raise == [ok |-> FALSE, out |-> NoColumn, crossed |-> FALSE]

Return(out, crossed) == [ok |-> TRUE, out |-> out, crossed |-> crossed]

\* _preprocess_single_input: lists, tuples and arrays become tensors
PreprocessSingleInput(col) ==
  IF col.kind \in {"plain", "ndarray"} THEN [col EXCEPT !.kind = "tensor"] ELSE col

\* _preprocess_inputs: a Python sequence holding a tensor or an array is a
\* list of columns; any other input is one value, converted as a whole
PreprocessInputs(inputs) ==
  IF inputs.multi
  THEN IF \E k \in 1..Len(inputs.cols) : IsTensorOrArray(inputs.cols[k])
       THEN [ok |-> TRUE, multi |-> TRUE,
             cols |-> [k \in 1..Len(inputs.cols) |-> PreprocessSingleInput(inputs.cols[k])]]
       ELSE IF Stackable(inputs.cols)
            THEN [ok |-> TRUE, multi |-> FALSE, cols |-> <<Stack(inputs.cols)>>]
            ELSE [ok |-> FALSE, multi |-> FALSE, cols |-> <<>>]
  ELSE [ok |-> TRUE, multi |-> FALSE, cols |-> <<PreprocessSingleInput(inputs.cols[1])>>]

\* _get_string_to_hash_bucket_fn: the fast hash, or the strong hash with
\* key = self.salt as it is when the method runs
GetStringToHashBucketFn(layer, h) ==
  IF ~layer.strong_hash
  THEN [strong |-> FALSE, key |-> <<>>]
  ELSE [strong |-> TRUE, key |-> h[layer.salt].elems]

\* whether applying the selected function raises
FnOk(fn) == ~fn.strong \/ KeyOk(fn.key)

StrToHashBucket(fn, x, num_buckets) ==
  IF fn.strong THEN ToHashBucketStrong(x, num_buckets, fn.key)
  ELSE ToHashBucketFast(x, num_buckets)

\* mutant: the mask is tested for truth ('' and 0 count as unset)
MaskIsSet_Truthy(layer) ==
  /\ layer.mask_value.t # "none"
  /\ layer.mask_value # PyStr(<<>>)
  /\ layer.mask_value # PyInt(0)

\* self.mask_value is not None
MaskIsSet(layer) == layer.mask_value.t # "none"

\* the zeroth bin is reserved for the mask
MaskReserved(layer) == MaskIsSet(layer) /\ layer.num_bins > 1

\* mutant: the reserved bin is not taken off the number of bins
NumAvailableBins_NotReduced(layer) == layer.num_bins

NumAvailableBins(layer) ==
  IF MaskReserved(layer) THEN layer.num_bins - 1 ELSE layer.num_bins

\* _hash_values_to_bins on the values vals of type dtype: the bin indices,
\* or an error
HashValuesToBins(layer, h, dtype, vals) ==
  LET str_to_hash_bucket == GetStringToHashBucketFn(layer, h)
      num_available_bins == NumAvailableBins(layer)
      masked == MaskReserved(layer)
      mask == IF masked THEN Equal(vals, layer.mask_value) ELSE <<>>
      strings == IF dtype = "int" THEN [k \in 1..Len(vals) |-> AsString(vals[k])] ELSE vals
      hashed == [k \in 1..Len(vals) |->
                   StrToHashBucket(str_to_hash_bucket, strings[k], num_available_bins)]
      added == [k \in 1..Len(vals) |-> hashed[k] + 1]
      bins == IF masked
              THEN [k \in 1..Len(vals) |-> IF mask[k] THEN 0 ELSE added[k]]
              ELSE hashed
  IN IF (masked /\ ~EqualOk(dtype, layer.mask_value)) \/ ~FnOk(str_to_hash_bucket)
     THEN [ok |-> FALSE, vals |-> <<>>]
     ELSE [ok |-> TRUE, vals |-> [k \in 1..Len(vals) |-> PyInt(bins[k])]]

\* the bytes one value contributes to a crossed row
CrossBytes(col, k) == IF col.dtype = "int" THEN AsString(col.vals[k]).s ELSE col.vals[k].s

RECURSIVE JointBytes(_, _)
\* the joint byte string of row k: the columns' values, each behind a separator
JointBytes(cols, k) ==
  IF cols = <<>> THEN <<>>
  ELSE <<95>> \o CrossBytes(Head(cols), k) \o JointBytes(Tail(cols), k)

\* tf.raw_ops.SparseCrossHashed over columns of one value per row; an error
\* when the columns disagree on the number of rows
CrossOk(cols) == \A j, k \in 1..Len(cols) : Len(cols[j].vals) = Len(cols[k].vals)

SparseCrossHashed(cols, num_buckets, strong_hash, salt) ==
  LET fn == [strong |-> strong_hash, key |-> salt]
  IN [k \in 1..Len(cols[1].vals) |->
        PyInt(StrToHashBucket(fn, PyStr(JointBytes(cols, k)), num_buckets))]

\* _process_input_list
ProcessInputList(layer, h, cols) ==
  IF \E k \in 1..Len(cols) : cols[k].kind = "ragged"
  THEN Raise
  ELSE IF layer.mask_value.t # "none"
  THEN Raise
  ELSE LET all_dense == ~\E k \in 1..Len(cols) : cols[k].kind = "sparse"
           salt == h[layer.salt].elems
           fn == [strong |-> layer.strong_hash, key |-> salt]
           values_out == SparseCrossHashed(cols, layer.num_bins, layer.strong_hash, salt)
           n == Len(values_out)
           indices_out == [k \in 1..n |-> <<k - 1, 0>>]
       IN IF ~CrossOk(cols) \/ ~FnOk(fn)
          THEN Raise
          ELSE IF all_dense
               THEN Return(Column("tensor", "int", values_out, <<>>, <<n, 1>>), TRUE)
               ELSE Return(Column("sparse", "int", values_out, indices_out, <<n, 1>>), TRUE)

\* mutant: the result's coordinates are numbered afresh, not taken from the input
SparseResult_Renumbered(inp, values) ==
  Column("sparse", "int", values, [k \in 1..Len(values) |-> <<k - 1, 0>>], inp.dense_shape)

\* tf.SparseTensor(indices=inputs.indices, values=..., dense_shape=inputs.dense_shape)
SparseResult(inp, values) ==
  Column("sparse", "int", values, inp.indices, inp.dense_shape)

\* call
PyCall(layer, h, inputs) ==
  LET pre == PreprocessInputs(inputs)
  IN IF ~pre.ok THEN Raise
     ELSE IF pre.multi THEN ProcessInputList(layer, h, pre.cols)
     ELSE LET inp == pre.cols[1]
              bins == HashValuesToBins(layer, h, inp.dtype, inp.vals)
          IN IF ~bins.ok THEN Raise
             ELSE IF inp.kind = "sparse"
                  THEN Return(SparseResult(inp, bins.vals), FALSE)
                  ELSE Return(Column(inp.kind, "int", bins.vals, inp.indices,
                                     inp.dense_shape), FALSE)

\* get_config: the dictionary's three entries; salt is the layer's own object
NoConfig == [num_bins |-> 0, salt |-> 0, mask_value |-> PyNone]

GetConfig(layer) ==
  [num_bins |-> layer.num_bins, salt |-> layer.salt, mask_value |-> layer.mask_value]

----------------------------------------------------------------------------
(* State: the heap of list and tuple objects, the hashers constructed so   *)
(* far, what each was constructed with, the list objects the caller holds  *)
(* a reference to, and the last operation with its outcome.                *)

NoArgs == [num_bins |-> PyNone, mask_value |-> PyNone, salt |-> PyNone]

Idle ==
  [op |-> "none", ok |-> TRUE, layer |-> 0, attrs |-> {}, args |-> NoArgs,
   inp |-> NoInput, out |-> NoColumn, crossed |-> FALSE, cfg |-> NoConfig]

\* what the constructor was given, and the salt's value when it returned
Given(salt, elems, src) == [supplied |-> salt.t # "none", salt0 |-> elems, src |-> src]

Init ==
  /\ heap = <<DEFAULT_SALT_KEY>>
  /\ layers = <<>>
  /\ given = <<>>
  /\ callerRefs = {}
  /\ last = Idle

\* h = Hashing(num_bins, mask_value, salt); a list the caller wrote for the
\* salt stays in the caller's hands
Construct(num_bins, mask_value, salt) ==
  /\ Len(layers) < MaxLayers
  /\ LET r == PyInit(heap, num_bins, mask_value, salt)
     IN /\ heap' = r.heap
        /\ layers' = IF r.ok THEN Append(layers, r.layer) ELSE layers
        /\ given' = IF r.ok
                    THEN Append(given, Given(salt, r.heap[r.layer.salt].elems, 0))
                    ELSE given
        /\ callerRefs' = IF r.ok /\ salt.t = "list"
                         THEN callerRefs \cup {r.layer.salt} ELSE callerRefs
        /\ last' = [Idle EXCEPT !.op = "init", !.ok = r.ok,
                      !.layer = IF r.ok THEN Len(layers) + 1 ELSE 0,
                      !.attrs = r.attrs,
                      !.args = [num_bins |-> num_bins, mask_value |-> mask_value,
                                salt |-> salt]]

\* h(inputs)
Call(l, inputs) ==
  /\ l \in 1..Len(layers)
  /\ LET r == PyCall(layers[l], heap, inputs)
     IN last' = [Idle EXCEPT !.op = "call", !.ok = r.ok, !.layer = l,
                   !.inp = inputs, !.out = r.out, !.crossed = r.crossed]
  /\ UNCHANGED <<heap, layers, given, callerRefs>>

\* config = h.get_config(): the caller now holds the layer's salt object
GetConfigCall(l) ==
  /\ l \in 1..Len(layers)
  /\ last' = [Idle EXCEPT !.op = "get_config", !.layer = l, !.cfg = GetConfig(layers[l])]
  /\ callerRefs' = callerRefs \cup {layers[l].salt}
  /\ UNCHANGED <<heap, layers, given>>

\* h2 = Hashing(**h.get_config())
FromConfig(l) ==
  /\ l \in 1..Len(layers)
  /\ Len(layers) < MaxLayers
  /\ LET cfg == GetConfig(layers[l])
         salt == Ref(cfg.salt)
         r == PyInit(heap, PyInt(cfg.num_bins), cfg.mask_value, salt)
     IN /\ heap' = r.heap
        /\ layers' = IF r.ok THEN Append(layers, r.layer) ELSE layers
        /\ given' = IF r.ok
                    THEN Append(given, Given(salt, r.heap[r.layer.salt].elems, l))
                    ELSE given
        /\ callerRefs' = callerRefs \cup {cfg.salt}
        /\ last' = [Idle EXCEPT !.op = "from_config", !.ok = r.ok,
                      !.layer = IF r.ok THEN Len(layers) + 1 ELSE 0,
                      !.attrs = r.attrs, !.cfg = cfg,
                      !.args = [num_bins |-> PyInt(cfg.num_bins),
                                mask_value |-> cfg.mask_value, salt |-> salt]]

\* the caller assigns to an element of a list it holds: s[k] = v
SetItem(a, k, v) ==
  /\ a \in callerRefs
  /\ heap[a].kind = "list"
  /\ k \in 1..Len(heap[a].elems)
  /\ heap[a].elems[k] # v
  /\ heap' = [heap EXCEPT ![a].elems[k] = v]
  /\ last' = [Idle EXCEPT !.op = "setitem"]
  /\ UNCHANGED <<layers, given, callerRefs>>

----------------------------------------------------------------------------
(* Arguments and inputs *)

IntVals == {PyInt(0), PyInt(42), PyInt(0 - 7)}

StrVals == {PyStr(<<>>), PyStr(<<65>>), PyStr(<<52, 50>>)}

Vectors(S) == UNION {[1..n -> S] : n \in 1..MaxLen}

SparseOf(dtype, vals) ==
  Column("sparse", dtype, vals, [k \in 1..Len(vals) |-> <<k, 0>>], <<Len(vals) + 2, 1>>)

\* dense and sparse tensors of every length up to MaxLen; arrays, ragged
\* tensors and plain sequences of one value
SingleColumns ==
  LET typed == {<<"int", v>> : v \in Vectors(IntVals)}
                 \cup {<<"string", v>> : v \in Vectors(StrVals)}
      short == {<<"int", <<v>> >> : v \in IntVals} \cup {<<"string", <<v>> >> : v \in StrVals}
  IN {Dense("tensor", tv[1], tv[2]) : tv \in typed}
       \cup {SparseOf(tv[1], tv[2]) : tv \in typed}
       \cup {Dense(kind, tv[1], tv[2]) : kind \in {"ndarray", "ragged", "plain"}, tv \in short}

ListColumns ==
  {Dense(kind, "string", <<PyStr(<<65>>)>>) : kind \in {"tensor", "ndarray", "ragged", "plain"}}
    \cup {SparseOf("string", <<PyStr(<<65>>)>>), Dense("tensor", "int", <<PyInt(42)>>)}

Inputs ==
  {Single(col) : col \in SingleColumns}
    \cup {Multi(c, <<a, b>>) : c \in {"list", "tuple"}, a \in ListColumns, b \in ListColumns}

ProbeInputs == {Single(Dense("tensor", "string", <<PyStr(<<65>>), PyStr(<<>>)>>))}

NumBinsArgs == {PyNone, PyInt(0 - 1), PyInt(0), PyInt(MaxBins)}

MaskArgs == {PyNone, PyStr(<<>>)}

SaltArgs ==
  {PyNone, PyInt(133), PyStr(<<120>>),
   New("list", <<PyInt(133), PyInt(137)>>),
   New("tuple", <<PyInt(133), PyInt(137)>>),
   New("list", <<PyInt(133), PyInt(137), PyInt(139)>>),
   New("list", <<PyStr(<<97>>), PyStr(<<98>>)>>)}
    \cup {Ref(a) : a \in callerRefs}

Next ==
  \/ \E nb \in NumBinsArgs, mv \in MaskArgs, salt \in SaltArgs : Construct(nb, mv, salt)
  \/ \E l \in 1..MaxLayers, inputs \in ProbeInputs : Call(l, inputs)
  \/ \E l \in 1..MaxLayers : GetConfigCall(l)
  \/ \E l \in 1..MaxLayers : FromConfig(l)
  \/ \E a \in 1..(MaxLayers + 1) : SetItem(a, 1, PyInt(9))

Spec == Init /\ [][Next]_vars

----------------------------------------------------------------------------
(* One hasher and everything it can be called with *)

HashNumBins == {PyInt(n) : n \in 1..MaxBins}

HashMasks == {PyNone, PyStr(<<>>), PyInt(0)}

HashSalts ==
  {PyNone, PyInt(133), New("list", <<PyInt(133), PyInt(137)>>),
   New("list", <<PyStr(<<97>>), PyStr(<<98>>)>>)}

InitHash ==
  \E nb \in HashNumBins, mv \in HashMasks, salt \in HashSalts :
     LET r == PyInit(<<DEFAULT_SALT_KEY>>, nb, mv, salt)
     IN /\ r.ok
        /\ heap = r.heap
        /\ layers = <<r.layer>>
        /\ given = <<Given(salt, r.heap[r.layer.salt].elems, 0)>>
        /\ callerRefs = IF salt.t = "list" THEN {r.layer.salt} ELSE {}
        /\ last = [Idle EXCEPT !.op = "init", !.layer = 1, !.attrs = r.attrs,
                     !.args = [num_bins |-> nb, mask_value |-> mv, salt |-> salt]]

NextHash == \E inputs \in Inputs : Call(1, inputs)

SpecHash == InitHash /\ [][NextHash]_vars

----------------------------------------------------------------------------
(* Properties *)

\* the hasher of the last operation
LastLayer == layers[last.layer]

\* the last operation was a call that returned a single-column result
Hashed == last.op = "call" /\ last.ok /\ ~last.crossed

\* the values a call was given, flat
InputVals == Flatten(last.inp.cols)

\* the bytes of a value as hashing is specified to see them: a string's own
\* bytes, an integer's decimal text
CanonicalBytes(x) ==
  IF x.t = "str" THEN x.s
  ELSE CASE x.i = 0 -> <<48>>
         [] x.i = 42 -> <<52, 50>>
         [] x.i = 0 - 7 -> <<45, 55>>

\* the hash the hasher l has for the value x
HashOfValue(l, x) ==
  IF layers[l].strong_hash
  THEN SipHash64(CanonicalBytes(x), heap[layers[l].salt].elems[1].i,
                 heap[layers[l].salt].elems[2].i)
  ELSE FarmHash64(CanonicalBytes(x))

\* C1: every bucket index that single-column hashing returns is at least 0
\* and less than the hasher's num_bins, with or without mask_value or salt.
C1_BucketInRange ==
  Hashed => \A k \in 1..Len(last.out.vals) :
               /\ last.out.vals[k].t = "int"
               /\ last.out.vals[k].i >= 0
               /\ last.out.vals[k].i < LastLayer.num_bins

C1_Witness ==
  /\ Hashed
  /\ LastLayer.mask_value.t # "none"
  /\ LastLayer.num_bins = MaxBins
  /\ \E k \in 1..Len(last.out.vals) : last.out.vals[k].i = MaxBins - 1
  /\ \E k \in 1..Len(last.out.vals) : last.out.vals[k].i = 0

\* C2: with mask_value set (the empty string and 0 included) and num_bins > 1,
\* single-column hashing gives bucket 0 to every value equal to mask_value and
\* (hash mod (num_bins - 1)) + 1, never 0, to every other value.
C2_MaskBucket ==
  (Hashed /\ LastLayer.mask_value.t # "none" /\ LastLayer.num_bins > 1) =>
    /\ Len(last.out.vals) = Len(InputVals)
    /\ \A k \in 1..Len(InputVals) :
         IF InputVals[k] = LastLayer.mask_value
         THEN last.out.vals[k].i = 0
         ELSE /\ last.out.vals[k].i =
                   (HashOfValue(last.layer, InputVals[k]) % (LastLayer.num_bins - 1)) + 1
              /\ last.out.vals[k].i # 0

C2_Witness ==
  /\ Hashed
  /\ LastLayer.mask_value \in {PyStr(<<>>), PyInt(0)}
  /\ LastLayer.num_bins = 3
  /\ Len(InputVals) = 2
  /\ InputVals[1] = LastLayer.mask_value
  /\ InputVals[2] # LastLayer.mask_value
  /\ last.out.vals[1].i = 0
  /\ last.out.vals[2].i = 2

\* C3: a constructor call with num_bins None, zero or negative raises before
\* it assigns any attribute, and no hasher exists with num_bins <= 0.
C3_NumBinsChecked ==
  /\ (last.op = "init" /\ (last.args.num_bins.t = "none" \/ last.args.num_bins.i <= 0)) =>
       (~last.ok /\ last.attrs = {} /\ last.layer = 0)
  /\ \A l \in 1..Len(layers) : layers[l].num_bins >= 1

C3_Witness ==
  /\ last.op = "init"
  /\ last.args.num_bins = PyInt(0)
  /\ ~last.ok
  /\ Len(layers) = 1

\* C4 as claimed: every call with two or more columns raises when mask_value
\* is set or a column is ragged, plain nested sequences included.
C4_Original ==
  (last.op = "call" /\ last.inp.multi /\ Len(last.inp.cols) >= 2
     /\ (LastLayer.mask_value.t # "none"
           \/ \E k \in 1..Len(last.inp.cols) : last.inp.cols[k].kind = "ragged")) =>
    (~last.ok /\ last.out = NoColumn)

\* C4, amended: a call with a list or tuple of two or more columns of which at
\* least one is a tensor, an array, a sparse or a ragged tensor raises and
\* returns nothing when mask_value is set or a column is ragged.
C4_CrossRejected ==
  (last.op = "call" /\ last.inp.multi /\ Len(last.inp.cols) >= 2
     /\ (\E k \in 1..Len(last.inp.cols) :
            last.inp.cols[k].kind \in {"tensor", "ndarray", "sparse", "ragged"})
     /\ (LastLayer.mask_value.t # "none"
           \/ \E k \in 1..Len(last.inp.cols) : last.inp.cols[k].kind = "ragged")) =>
    (~last.ok /\ last.out = NoColumn /\ ~last.crossed)

C4_Witness ==
  /\ last.op = "call"
  /\ last.inp.multi
  /\ last.inp.container = "tuple"
  /\ LastLayer.mask_value = PyStr(<<>>)
  /\ last.inp.cols[1].kind = "plain"
  /\ last.inp.cols[2].kind = "ndarray"
  /\ ~last.ok

\* C5 as claimed: a salt that is neither two integers nor one integer makes
\* the constructor raise, and every hasher's salt is a pair of integers.
C5_Original ==
  /\ (last.op = "init"
        /\ last.args.salt.t \in {"list", "tuple", "str"}
        /\ ~(Len(last.args.salt.s) = 2 /\ \A k \in 1..2 : last.args.salt.s[k].t = "int")) =>
       ~last.ok
  /\ \A l \in 1..Len(layers) :
       /\ Len(heap[layers[l].salt].elems) = 2
       /\ \A k \in 1..2 : heap[layers[l].salt].elems[k].t = "int"

\* C6 as claimed: a hasher uses the strong hash exactly when a salt was given
\* to its constructor; one built without a salt has the pair
\* (0xDECAFCAFFE, 0xDECAFCAFFE) as its salt; one built with the integer s was
\* given the salt [s, s].
C6_Original ==
  \A l \in 1..Len(layers) :
     /\ layers[l].strong_hash = given[l].supplied
     /\ ~given[l].supplied => heap[layers[l].salt].elems = DEFAULT_SALT_KEY.elems
     /\ (last.op = "init" /\ last.ok /\ last.layer = l /\ last.args.salt.t = "int") =>
          given[l].salt0 = <<last.args.salt, last.args.salt>>

\* C7 as claimed: the hasher built from another's get_config has the same
\* num_bins, mask_value, salt and hash function as that one.
C7_Original ==
  (last.op = "from_config" /\ last.ok) =>
    /\ layers[last.layer].num_bins = layers[given[last.layer].src].num_bins
    /\ layers[last.layer].mask_value = layers[given[last.layer].src].mask_value
    /\ heap[layers[last.layer].salt].elems = heap[layers[given[last.layer].src].salt].elems
    /\ layers[last.layer].strong_hash = layers[given[last.layer].src].strong_hash

\* the strings that are the decimal text of the integers vals
CanonicalStrings(vals) == [k \in 1..Len(vals) |-> PyStr(CanonicalBytes(vals[k]))]

\* C8 as claimed: under any one configuration, hashing integers returns the
\* buckets that hashing their decimal strings returns.
C8_Original ==
  (Hashed /\ last.inp.cols[1].dtype = "int") =>
    LET r == HashValuesToBins(LastLayer, heap, "string", CanonicalStrings(InputVals))
    IN r.ok /\ r.vals = last.out.vals

\* C8, amended: under one configuration with mask_value unset, or with
\* num_bins = 1, hashing integers returns the buckets that hashing their
\* decimal strings returns.
C8_IntAsString ==
  (Hashed /\ last.inp.cols[1].dtype = "int"
     /\ (LastLayer.mask_value.t = "none" \/ LastLayer.num_bins = 1)) =>
    LET r == HashValuesToBins(LastLayer, heap, "string", CanonicalStrings(InputVals))
    IN r.ok /\ r.vals = last.out.vals

C8_Witness ==
  /\ Hashed
  /\ last.inp.cols[1].dtype = "int"
  /\ LastLayer.mask_value.t = "none"
  /\ LastLayer.num_bins = 3
  /\ LastLayer.strong_hash
  /\ InputVals = <<PyInt(0 - 7), PyInt(42)>>
  /\ last.out.vals[1] # last.out.vals[2]

\* the bucket single-column hashing is specified to give the value x
ExpectedBucket(l, x) ==
  IF layers[l].mask_value.t # "none" /\ layers[l].num_bins > 1
  THEN IF x = layers[l].mask_value THEN 0
       ELSE (HashOfValue(l, x) % (layers[l].num_bins - 1)) + 1
  ELSE HashOfValue(l, x) % layers[l].num_bins

\* C9: hashing one sparse input returns a sparse result with the input's
\* coordinates and dense_shape, and one bucket per input value in the input's
\* order, masked and bucketed as a dense input's values are.
C9_SparseKept ==
  (Hashed /\ ~last.inp.multi /\ last.inp.cols[1].kind = "sparse") =>
    /\ last.out.kind = "sparse"
    /\ last.out.indices = last.inp.cols[1].indices
    /\ last.out.dense_shape = last.inp.cols[1].dense_shape
    /\ Len(last.out.vals) = Len(last.inp.cols[1].vals)
    /\ \A k \in 1..Len(last.out.vals) :
         last.out.vals[k].i = ExpectedBucket(last.layer, last.inp.cols[1].vals[k])

C9_Witness ==
  /\ Hashed
  /\ ~last.inp.multi
  /\ last.inp.cols[1].kind = "sparse"
  /\ Len(last.inp.cols[1].vals) = 2
  /\ LastLayer.mask_value.t # "none"
  /\ last.out.vals[1].i = 0
  /\ last.out.vals[2].i > 0
  /\ last.out.indices = <<<<1, 0>>, <<2, 0>>>>

\* C10 as claimed: a hasher's salt is what it was at construction, whatever
\* has happened since.
C10_Original ==
  \A l \in 1..Len(layers) : heap[layers[l].salt].elems = given[l].salt0

====
